---- MODULE Spec2Model ----
(***************************************************************************)
(* The hello-world counter program (program-rust/src/lib.rs).              *)
(*                                                                         *)
(* The runtime owns a set of accounts; each account has an owner, a        *)
(* balance and a byte buffer.  An invocation hands process_instruction a   *)
(* program id, a slice of AccountInfo and an instruction payload.  An      *)
(* AccountInfo refers to its account's buffer through a shared cell        *)
(* (account.data.borrow_mut()), so two entries of the slice with the same  *)
(* key see the same buffer.                                                *)
(*                                                                         *)
(* A u32 is kept as two 16-bit limbs [hi, lo] (value = hi * 2^16 + lo),    *)
(* because 2^32 - 1 is outside the model checker's integers.               *)
(***************************************************************************)
EXTENDS Integers, Sequences, FiniteSets, TLC

\* ---------------------------------------------------------------- bounds
MaxCalls == 3
MaxAccounts == 2
MaxTrail == 3

\* ------------------------------------------------------------- constants
U32Bytes == 4
ByteRange == 256
LimbRange == 65536

Pubkeys == {"P", "Q"}
Keys == {"a1", "a2"}
Payloads == {<< >>, <<1>>}
Flags == {<<FALSE, TRUE>>, <<TRUE, FALSE>>}

\* Buffers an account may hold before the program first runs on it: too
\* short, exactly a u32 (with the carries and the overflow in reach of one
\* increment), too long.
InitData ==
    { << >>, <<7>>, <<1, 2, 3>>,
      <<0, 0, 0, 0>>, <<255, 255, 0, 0>>,
      <<255, 255, 255, 255>>,
      <<1, 0, 0, 0, 9>> }
InitData2 == { <<0, 0, 0, 0>> }
InitOwners == { [k \in Keys |-> IF k = "a1" THEN "P" ELSE o] : o \in Pubkeys }

\* AccountInfo: key, is_signer, is_writable.  owner, lamports and data are
\* reached through the key.
AccountInfos == { [key |-> k, is_signer |-> f[1], is_writable |-> f[2]] : k \in Keys, f \in Flags }

\* The entries after the first carry the flags of test_sanity.
LaterAccountInfos == { [key |-> k, is_signer |-> FALSE, is_writable |-> TRUE] : k \in Keys }

RECURSIVE SeqsUpTo(_, _)
SeqsUpTo(S, n) ==
    IF n = 0 THEN { << >> }
    ELSE LET shorter == SeqsUpTo(S, n - 1)
         IN  shorter \cup { Append(s, x) : s \in { t \in shorter : Len(t) = n - 1 }, x \in S }

\* The slices handed to the entrypoint: empty, or up to MaxAccounts entries,
\* which may name the same account more than once.
AccountSlices ==
    { << >> } \cup
    { << first >> \o rest : first \in AccountInfos, rest \in SeqsUpTo(LaterAccountInfos, MaxAccounts - 1) }

\* ------------------------------------------------------------- u32 / borsh
U32Max == [hi |-> LimbRange - 1, lo |-> LimbRange - 1]

\* a decoder that reads the bytes most significant first
U32FromBeBytes(b) ==
    [hi |-> b[2] + ByteRange * b[1], lo |-> b[4] + ByteRange * b[3]]

\* u32::from_le_bytes
U32FromLeBytes(b) ==
    [lo |-> b[1] + ByteRange * b[2], hi |-> b[3] + ByteRange * b[4]]

\* the bytes in the opposite order
U32ToBeBytes(v) ==
    << v.hi \div ByteRange, v.hi % ByteRange, v.lo \div ByteRange, v.lo % ByteRange >>

\* u32::to_le_bytes
U32ToLeBytes(v) ==
    << v.lo % ByteRange, v.lo \div ByteRange, v.hi % ByteRange, v.hi \div ByteRange >>

\* a decoder that takes a short slice as if it were zero-extended
try_from_slice_padded(buf) ==
    IF Len(buf) > U32Bytes \/ Len(buf) = 0
    THEN [ok |-> FALSE, err |-> "BorshIoError", value |-> [counter |-> [hi |-> 0, lo |-> 0]]]
    ELSE [ok |-> TRUE, err |-> "",
          value |-> [counter |-> U32FromLeBytes([i \in 1..U32Bytes |-> IF i <= Len(buf) THEN buf[i] ELSE 0])]]

\* a decoder whose length test is off by one
try_from_slice_off_by_one(buf) ==
    IF Len(buf) > U32Bytes \/ Len(buf) < U32Bytes - 1
    THEN [ok |-> FALSE, err |-> "BorshIoError", value |-> [counter |-> [hi |-> 0, lo |-> 0]]]
    ELSE [ok |-> TRUE, err |-> "",
          value |-> [counter |-> U32FromLeBytes([i \in 1..U32Bytes |-> IF i <= Len(buf) THEN buf[i] ELSE 0])]]

\* a decoder that reads the u32 and accepts whatever follows it
try_from_slice_prefix(buf) ==
    IF Len(buf) < U32Bytes
    THEN [ok |-> FALSE, err |-> "BorshIoError", value |-> [counter |-> [hi |-> 0, lo |-> 0]]]
    ELSE [ok |-> TRUE, err |-> "", value |-> [counter |-> U32FromLeBytes(buf)]]

\* GreetingAccount::try_from_slice: reads the u32, then requires that the
\* whole slice was consumed.
try_from_slice(buf) ==
    IF Len(buf) < U32Bytes
    THEN [ok |-> FALSE, err |-> "BorshIoError", value |-> [counter |-> [hi |-> 0, lo |-> 0]]]
    ELSE IF Len(buf) > U32Bytes
    THEN [ok |-> FALSE, err |-> "BorshIoError", value |-> [counter |-> [hi |-> 0, lo |-> 0]]]
    ELSE [ok |-> TRUE, err |-> "", value |-> [counter |-> U32FromLeBytes(buf)]]

\* an increment that loses the carry into the upper half
AddOneNoCarry(v, checks) ==
    IF v = U32Max
    THEN IF checks THEN [panic |-> TRUE, value |-> v]
         ELSE [panic |-> FALSE, value |-> [hi |-> 0, lo |-> 0]]
    ELSE IF v.lo = LimbRange - 1
    THEN [panic |-> FALSE, value |-> [hi |-> v.hi, lo |-> 0]]
    ELSE [panic |-> FALSE, value |-> [hi |-> v.hi, lo |-> v.lo + 1]]

\* counter += 1.  At u32::MAX the outcome depends on the build: with
\* overflow checks (debug and test profiles) the addition panics, without
\* them (release profile) it wraps.
AddOne(v, checks) ==
    IF v = U32Max
    THEN IF checks THEN [panic |-> TRUE, value |-> v]
         ELSE [panic |-> FALSE, value |-> [hi |-> 0, lo |-> 0]]
    ELSE IF v.lo = LimbRange - 1
    THEN [panic |-> FALSE, value |-> [hi |-> v.hi + 1, lo |-> 0]]
    ELSE [panic |-> FALSE, value |-> [hi |-> v.hi, lo |-> v.lo + 1]]

\* an encoder that wants room for one byte more than it writes
serialize_strict(rec, buf) ==
    LET bytes == U32ToLeBytes(rec.counter)
        n == IF Len(buf) < U32Bytes THEN Len(buf) ELSE U32Bytes
    IN  [ok |-> Len(buf) > U32Bytes,
         err |-> IF Len(buf) > U32Bytes THEN "" ELSE "BorshIoError",
         buf |-> [i \in 1..Len(buf) |-> IF i <= n THEN bytes[i] ELSE buf[i]]]

\* greeting_account.serialize(&mut &mut buf[..]): io::Write for &mut [u8]
\* copies as many bytes as fit, and fails when not all of them did.
serialize(rec, buf) ==
    LET bytes == U32ToLeBytes(rec.counter)
        n == IF Len(buf) < U32Bytes THEN Len(buf) ELSE U32Bytes
    IN  [ok |-> Len(buf) >= U32Bytes,
         err |-> IF Len(buf) >= U32Bytes THEN "" ELSE "BorshIoError",
         buf |-> [i \in 1..Len(buf) |-> IF i <= n THEN bytes[i] ELSE buf[i]]]

\* indexing the slice instead of iterating it: accounts[0] panics when the
\* slice is empty
index_first_account(accts) ==
    IF Len(accts) = 0
    THEN [ok |-> FALSE, err |-> "Panic", account |-> [key |-> "", is_signer |-> FALSE, is_writable |-> FALSE]]
    ELSE [ok |-> TRUE, err |-> "", account |-> accts[1]]

\* next_account_info on a fresh iterator of the slice
next_account_info(accts) ==
    IF Len(accts) = 0
    THEN [ok |-> FALSE, err |-> "NotEnoughAccountKeys", account |-> [key |-> "", is_signer |-> FALSE, is_writable |-> FALSE]]
    ELSE [ok |-> TRUE, err |-> "", account |-> accts[1]]

Msg(text, args) == [op |-> "msg", text |-> text, args |-> args]
Wrote(key) == [op |-> "serialize", text |-> key, args |-> << >>]

\* a write that lands in every buffer
borrow_mut_all(bufs, key, buf) == [k \in DOMAIN bufs |-> buf]

\* account.data.borrow_mut(): the write goes to the buffer the AccountInfo
\* shares with every other AccountInfo of the same account.
borrow_mut(bufs, key, buf) == [bufs EXCEPT ![key] = buf]

\* ------------------------------------------------------ process_instruction
\* mem = [owner, lamports, data], each a function of the account key;
\* checks = the build's overflow checks; events = what the call has made
\* observable so far.  Every stage yields the returned value ("Ok", an
\* error name, or "Panic"), the buffers after the call and the events of
\* the call in order.

\* a handler that logs the counter it read, not the one it stored
StoreLogsOld(account, greeting_account, mem, events) ==
    LET ser == serialize(greeting_account, mem.data[account.key])
        bufs == borrow_mut(mem.data, account.key, ser.buf)
    IN  IF ~ser.ok
        THEN [result |-> ser.err, data |-> bufs, events |-> Append(events, Wrote(account.key))]
        ELSE [result |-> "Ok", data |-> bufs,
              events |-> events \o << Wrote(account.key),
                                      Msg("Greeted {} time(s)!",
                                          << U32FromLeBytes(mem.data[account.key]) >>) >>]

\* serialize into the account's buffer, log, return Ok
Store(account, greeting_account, mem, events) ==
    LET ser == serialize(greeting_account, mem.data[account.key])
        bufs == borrow_mut(mem.data, account.key, ser.buf)
    IN  IF ~ser.ok
        THEN [result |-> ser.err, data |-> bufs, events |-> Append(events, Wrote(account.key))]
        ELSE [result |-> "Ok", data |-> bufs,
              events |-> events \o << Wrote(account.key),
                                      Msg("Greeted {} time(s)!", << greeting_account.counter >>) >>]

\* greeting_account.counter += 1
Increment(account, greeting_account, mem, checks, events) ==
    LET inc == AddOne(greeting_account.counter, checks)
    IN  IF inc.panic
        THEN [result |-> "Panic", data |-> mem.data, events |-> events]
        ELSE Store(account, [counter |-> inc.value], mem, events)

\* let mut greeting_account = GreetingAccount::try_from_slice(..)?
Decode(account, mem, checks, events) ==
    LET dec == try_from_slice(mem.data[account.key])
    IN  IF ~dec.ok
        THEN [result |-> dec.err, data |-> mem.data, events |-> events]
        ELSE Increment(account, dec.value, mem, checks, events)

\* a handler that decodes before it checks the owner
CheckOwnerAfterDecode(program_id, account, mem, checks, events) ==
    IF ~try_from_slice(mem.data[account.key]).ok
    THEN [result |-> "BorshIoError", data |-> mem.data, events |-> events]
    ELSE IF mem.owner[account.key] # program_id
    THEN [result |-> "IncorrectProgramId", data |-> mem.data,
          events |-> Append(events, Msg("Greeted account does not have the correct program id", << >>))]
    ELSE Decode(account, mem, checks, events)

\* the handler without its ownership check
CheckOwnerSkipped(program_id, account, mem, checks, events) ==
    Decode(account, mem, checks, events)

\* if account.owner != program_id { msg!(..); return Err(IncorrectProgramId) }
CheckOwner(program_id, account, mem, checks, events) ==
    IF mem.owner[account.key] # program_id
    THEN [result |-> "IncorrectProgramId", data |-> mem.data,
          events |-> Append(events, Msg("Greeted account does not have the correct program id", << >>))]
    ELSE Decode(account, mem, checks, events)

\* let account = next_account_info(accounts_iter)?
SelectAccount(program_id, accts, mem, checks, events) ==
    LET nxt == next_account_info(accts)
    IN  IF ~nxt.ok
        THEN [result |-> nxt.err, data |-> mem.data, events |-> events]
        ELSE CheckOwner(program_id, nxt.account, mem, checks, events)

\* a handler that rejects a non-empty payload
process_instruction_dispatch(program_id, accts, instruction_data, mem, checks) ==
    IF instruction_data # << >>
    THEN [result |-> "InvalidInstructionData", data |-> mem.data,
          events |-> << Msg("Hello World Rust program entrypoint", << >>) >>]
    ELSE SelectAccount(program_id, accts, mem, checks,
                       << Msg("Hello World Rust program entrypoint", << >>) >>)

\* Program entrypoint's implementation.  _instruction_data is ignored.
process_instruction(program_id, accts, instruction_data, mem, checks) ==
    SelectAccount(program_id, accts, mem, checks,
                  << Msg("Hello World Rust program entrypoint", << >>) >>)

\* ------------------------------------------------------------------ state
VARIABLES
    overflow_checks,   \* build profile: does counter += 1 panic on overflow
    owner,             \* account key -> owning program
    lamports,          \* account key -> balance
    data,              \* account key -> byte buffer
    calls,             \* number of invocations so far
    call,              \* the last invocation: its inputs, the buffers at entry, its outcome
    data0,             \* the buffers before the first invocation
    greeted,           \* account key -> invocations so far by its owner with it as first account
    codec              \* a buffer and a record under the codec alone, with what was applied to them

vars == << overflow_checks, owner, lamports, data, calls, call, data0, greeted, codec >>

Mem == [owner |-> owner, lamports |-> lamports, data |-> data]

NoCall ==
    [program_id |-> "", accounts |-> << >>, instruction_data |-> << >>,
     entry |-> [k \in Keys |-> << >>], result |-> "None", events |-> << >>]

CodecIdle ==
    [buf |-> << >>, rec |-> [counter |-> [hi |-> 0, lo |-> 0]],
     buf0 |-> << >>, rec0 |-> [counter |-> [hi |-> 0, lo |-> 0]],
     trail |-> << >>, seen |-> << >>]

Init ==
    /\ overflow_checks \in BOOLEAN
    /\ owner \in InitOwners
    /\ lamports = [k \in Keys |-> IF k = "a1" THEN 0 ELSE 5]
    /\ data \in { [k \in Keys |-> IF k = "a1" THEN d1 ELSE d2] : d1 \in InitData, d2 \in InitData2 }
    /\ calls = 0
    /\ call = NoCall
    /\ data0 = data
    /\ greeted = [k \in Keys |-> 0]
    /\ codec = CodecIdle

\* The runtime invokes the entrypoint.
Invoke ==
    /\ calls < MaxCalls
    /\ \E program_id \in Pubkeys, accts \in AccountSlices, instruction_data \in Payloads :
         LET r == process_instruction(program_id, accts, instruction_data, Mem, overflow_checks)
         IN  /\ data' = r.data
             /\ call' = [program_id |-> program_id, accounts |-> accts,
                         instruction_data |-> instruction_data,
                         entry |-> data, result |-> r.result, events |-> r.events]
             /\ greeted' = [k \in Keys |->
                             IF Len(accts) > 0 /\ accts[1].key = k /\ owner[k] = program_id
                             THEN greeted[k] + 1 ELSE greeted[k]]
    /\ calls' = calls + 1
    /\ UNCHANGED << overflow_checks, owner, lamports, data0, codec >>

Next == Invoke

Spec == Init /\ [][Next]_vars

\* ------------------------------------------------------- the codec alone
\* GreetingAccount::try_from_slice and GreetingAccount::serialize applied,
\* in any order, to a buffer and a record.
CodecBytes == {0, 1, 128, 255}
CodecLimbs == {0, 1, 256, 65535}
CodecBuffers ==
    { <<b1, b2, b3, b4>> : b1 \in CodecBytes, b2 \in CodecBytes, b3 \in CodecBytes, b4 \in CodecBytes }
        \cup { <<1, 2, 3>>, <<1, 0, 0, 0, 9>> }
CodecRecords == { [counter |-> [hi |-> h, lo |-> l]] : h \in CodecLimbs, l \in CodecLimbs }

CodecInit ==
    /\ overflow_checks = FALSE
    /\ owner = [k \in Keys |-> "P"]
    /\ lamports = [k \in Keys |-> 0]
    /\ data = [k \in Keys |-> << >>]
    /\ calls = 0
    /\ call = NoCall
    /\ data0 = data
    /\ greeted = [k \in Keys |-> 0]
    /\ \E b \in CodecBuffers, r \in CodecRecords :
           /\ (b \in {<<0, 0, 0, 0>>, <<255, 255, 255, 255>>} \/ r.counter = [hi |-> 0, lo |-> 0])
           /\ codec = [buf |-> b, rec |-> r, buf0 |-> b, rec0 |-> r, trail |-> << >>, seen |-> << >>]

\* rec = GreetingAccount::try_from_slice(buf)?
CodecDecode ==
    /\ Len(codec.trail) < MaxTrail
    /\ LET dec == try_from_slice(codec.buf)
           rec2 == IF dec.ok THEN dec.value ELSE codec.rec
       IN  codec' = [codec EXCEPT !.rec = rec2,
                                  !.trail = Append(@, IF dec.ok THEN "decode" ELSE "decode_err"),
                                  !.seen = Append(@, [buf |-> codec.buf, rec |-> rec2])]
    /\ UNCHANGED << overflow_checks, owner, lamports, data, calls, call, data0, greeted >>

\* rec.serialize(&mut &mut buf[..])?
CodecEncode ==
    /\ Len(codec.trail) < MaxTrail
    /\ LET ser == serialize(codec.rec, codec.buf)
       IN  codec' = [codec EXCEPT !.buf = ser.buf,
                                  !.trail = Append(@, IF ser.ok THEN "encode" ELSE "encode_err"),
                                  !.seen = Append(@, [buf |-> ser.buf, rec |-> codec.rec])]
    /\ UNCHANGED << overflow_checks, owner, lamports, data, calls, call, data0, greeted >>

CodecNext == CodecDecode \/ CodecEncode

CodecSpec == CodecInit /\ [][CodecNext]_vars

\* ------------------------------------------------------------- properties
\* What the properties say about the last invocation.
Called == call.result # "None"
HasFirst == Len(call.accounts) > 0
FirstKey == call.accounts[1].key
OwnedFirst == HasFirst /\ owner[FirstKey] = call.program_id
Zero4 == <<0, 0, 0, 0>>
Max4 == <<255, 255, 255, 255>>
HelloLine == Msg("Hello World Rust program entrypoint", << >>)
Serialized == { i \in 1..Len(call.events) : call.events[i].op = "serialize" }

\* b = (a + 1) mod 2^32, on the two halves of a u32
IsSucc(a, b) ==
    \/ b.hi = a.hi /\ b.lo = a.lo + 1
    \/ b.hi = a.hi + 1 /\ a.lo = 65535 /\ b.lo = 0
    \/ a.hi = 65535 /\ a.lo = 65535 /\ b.hi = 0 /\ b.lo = 0

\* a <= b as u32
Leq(a, b) == a.hi < b.hi \/ (a.hi = b.hi /\ a.lo <= b.lo)

\* C1: a call on a first account owned by the invoker and holding a 4-byte
\* counter c returns success and stores (c + 1) mod 2^32, for every c up to
\* and including 2^32 - 1.
C1_IncrementsModulo ==
    (Called /\ OwnedFirst /\ Len(call.entry[FirstKey]) = 4)
        => /\ call.result = "Ok"
           /\ Len(data[FirstKey]) = 4
           /\ IsSucc(U32FromLeBytes(call.entry[FirstKey]), U32FromLeBytes(data[FirstKey]))

\* C2: a call whose first account is owned by another program returns
\* IncorrectProgramId and leaves every buffer as it was; an account that was
\* never the first account of a call by its owner still holds its initial
\* bytes.
C2_OwnerMismatchRejected ==
    /\ (Called /\ HasFirst /\ owner[FirstKey] # call.program_id)
           => call.result = "IncorrectProgramId" /\ data = call.entry
    /\ \A k \in Keys : greeted[k] = 0 => data[k] = data0[k]

C2_Witness ==
    /\ calls >= 2 /\ HasFirst /\ owner[FirstKey] # call.program_id
    /\ call.result = "IncorrectProgramId"
    /\ data0[FirstKey] = Zero4 /\ greeted[FirstKey] = 0 /\ data[FirstKey] = Zero4

\* C3: a call that does not return Ok leaves every buffer unchanged and has
\* not run the encode step; the encode step runs once, only in a call whose
\* ownership check and decode succeeded, and only the log line follows it.
C3_FailureLeavesBuffers ==
    Called =>
        /\ call.result # "Ok" => data = call.entry /\ Serialized = {}
        /\ call.result = "Ok" =>
               /\ OwnedFirst
               /\ try_from_slice(call.entry[FirstKey]).ok
               /\ Serialized = { Len(call.events) - 1 }
               /\ call.events[Len(call.events)].op = "msg"

C3_Witness ==
    /\ OwnedFirst /\ call.result = "BorshIoError"
    /\ Len(call.entry[FirstKey]) = 3 /\ data = call.entry

C5_NeverPanics ==
    call.result \in {"None", "Ok", "NotEnoughAccountKeys", "IncorrectProgramId", "BorshIoError"}

\* C6 (as stated): the counter decoded after a call is never less than the
\* counter decoded before it.
C6_Monotonic ==
    \A k \in Keys :
        (Called /\ try_from_slice(call.entry[k]).ok /\ try_from_slice(data[k]).ok)
            => Leq(U32FromLeBytes(call.entry[k]), U32FromLeBytes(data[k]))

\* C6 (amended): the counter decoded after a call is never less than the
\* counter decoded before it, except that a successful call on a counter of
\* 2^32 - 1 leaves 0.
C6_MonotonicUntilWrap ==
    \A k \in Keys :
        (Called /\ try_from_slice(call.entry[k]).ok /\ try_from_slice(data[k]).ok)
            => \/ Leq(U32FromLeBytes(call.entry[k]), U32FromLeBytes(data[k]))
               \/ /\ call.entry[k] = Max4 /\ data[k] = Zero4
                  /\ call.result = "Ok" /\ OwnedFirst /\ FirstKey = k

C6_Witness ==
    /\ OwnedFirst /\ call.result = "Ok" /\ ~overflow_checks
    /\ call.entry[FirstKey] = Max4 /\ data[FirstKey] = Zero4

\* C7: a call on an owned first account whose buffer has fewer than 4 bytes
\* returns the decode error and leaves the buffers unchanged.
C7_ShortBufferRejected ==
    (Called /\ OwnedFirst /\ Len(call.entry[FirstKey]) < 4)
        => call.result = "BorshIoError" /\ data = call.entry

C7_Witness ==
    /\ OwnedFirst /\ Len(call.entry[FirstKey]) = 3
    /\ call.result = "BorshIoError" /\ data[FirstKey] = <<1, 2, 3>>

\* C8 (as stated): a call with no accounts returns NotEnoughAccountKeys,
\* changes no buffer and produces nothing else observable.
C8_NoSideEffect ==
    (Called /\ ~HasFirst)
        => call.result = "NotEnoughAccountKeys" /\ data = call.entry /\ call.events = << >>

\* C8 (amended): a call with no accounts returns NotEnoughAccountKeys,
\* changes no buffer, and the only thing it produces is the entrypoint log
\* line.
C8_OnlyEntryLog ==
    (Called /\ ~HasFirst)
        => call.result = "NotEnoughAccountKeys" /\ data = call.entry /\ call.events = << HelloLine >>

C8_Witness ==
    /\ Called /\ ~HasFirst /\ call.result = "NotEnoughAccountKeys"
    /\ calls >= 1 /\ data = call.entry

\* C9 (as stated): a call leaves the buffer, owner and balance of every
\* account at position 2 or later unchanged, and the owner, balance and
\* buffer length of the first account.
C9_LaterPositionsUntouched ==
    [][ LET a == call'.accounts
        IN  /\ \A i \in 2..Len(a) :
                   /\ data'[a[i].key] = data[a[i].key]
                   /\ owner'[a[i].key] = owner[a[i].key]
                   /\ lamports'[a[i].key] = lamports[a[i].key]
            /\ Len(a) > 0 =>
                   /\ owner'[a[1].key] = owner[a[1].key]
                   /\ lamports'[a[1].key] = lamports[a[1].key]
                   /\ Len(data'[a[1].key]) = Len(data[a[1].key]) ]_vars

\* C9 (amended): a call leaves the buffer of every account other than the
\* first one unchanged (an entry at position 2 or later that names the first
\* account again shares its buffer), and the owner and balance of every
\* account and the buffer length of the first account.
C9_OtherAccountsUntouched ==
    [][ LET a == call'.accounts
        IN  /\ \A i \in 2..Len(a) :
                   /\ a[i].key # a[1].key => data'[a[i].key] = data[a[i].key]
                   /\ owner'[a[i].key] = owner[a[i].key]
                   /\ lamports'[a[i].key] = lamports[a[i].key]
            /\ \A k \in Keys : (Len(a) = 0 \/ k # a[1].key) => data'[k] = data[k]
            /\ Len(a) > 0 =>
                   /\ owner'[a[1].key] = owner[a[1].key]
                   /\ lamports'[a[1].key] = lamports[a[1].key]
                   /\ Len(data'[a[1].key]) = Len(data[a[1].key]) ]_vars

C9_Witness ==
    /\ Len(call.accounts) = 2 /\ call.result = "Ok"
    /\ call.accounts[2].key # FirstKey
    /\ owner[call.accounts[2].key] = call.program_id
    /\ data[FirstKey] # call.entry[FirstKey]
    /\ data[call.accounts[2].key] = call.entry[call.accounts[2].key]

\* C10: the outcome of a call does not depend on its payload: the same call
\* with any other payload returns the same value, leaves the same buffers
\* and produces the same events.
C10_PayloadIgnored ==
    Called =>
        \A d \in Payloads :
            LET r == process_instruction(call.program_id, call.accounts, d,
                                         [owner |-> owner, lamports |-> lamports, data |-> call.entry],
                                         overflow_checks)
            IN  r.result = call.result /\ r.data = data /\ r.events = call.events

C10_Witness ==
    /\ Called /\ call.instruction_data # << >> /\ call.result = "Ok"
    /\ data # call.entry

\* The buffer and record after i codec steps (0 = the inputs).
CodecAt(i) ==
    IF i = 0 THEN [buf |-> codec.buf0, rec |-> codec.rec0] ELSE codec.seen[i]

\* C11: the codec round-trips.  Decoding what was just encoded gives back
\* the record; encoding what was just decoded from a 4-byte buffer gives
\* back the buffer byte for byte; hence decode, encode, decode ends on the
\* record of the first decode.  The counter 1 is encoded as 01 00 00 00.
C11_RoundTrip ==
    \A i \in 2..Len(codec.trail) :
        /\ (codec.trail[i - 1] = "encode" /\ codec.trail[i] = "decode")
               => CodecAt(i).rec = CodecAt(i - 2).rec
        /\ (codec.trail[i - 1] = "decode" /\ codec.trail[i] = "encode")
               => CodecAt(i).buf = CodecAt(i - 2).buf
        /\ (i >= 3 /\ codec.trail[i - 2] = "decode" /\ codec.trail[i - 1] = "encode"
                   /\ codec.trail[i] = "decode")
               => CodecAt(i).rec = CodecAt(i - 2).rec
        /\ (codec.trail[i - 1] = "encode" /\ CodecAt(i - 1).rec.counter = [hi |-> 0, lo |-> 1])
               => CodecAt(i - 1).buf = <<1, 0, 0, 0>>

C11_Witness ==
    /\ codec.trail = <<"decode", "encode", "decode">>
    /\ codec.buf0 = <<255, 128, 1, 0>>
    /\ codec.buf = codec.buf0
    /\ codec.rec.counter = [hi |-> 1, lo |-> 33023]

\* C12: the checks run in a fixed order.  No account gives
\* NotEnoughAccountKeys; otherwise an owner mismatch gives
\* IncorrectProgramId whether or not the buffer decodes; the decode error is
\* returned only for a first account that exists and is owned by the
\* invoker.
C12_CheckOrder ==
    Called =>
        /\ ~HasFirst => call.result = "NotEnoughAccountKeys"
        /\ (HasFirst /\ owner[FirstKey] # call.program_id) => call.result = "IncorrectProgramId"
        /\ call.result = "NotEnoughAccountKeys" => ~HasFirst
        /\ call.result = "IncorrectProgramId" => (HasFirst /\ owner[FirstKey] # call.program_id)
        /\ call.result = "BorshIoError" => (OwnedFirst /\ ~try_from_slice(call.entry[FirstKey]).ok)

C12_Witness ==
    /\ HasFirst /\ owner[FirstKey] # call.program_id
    /\ Len(call.entry[FirstKey]) = 3
    /\ call.result = "IncorrectProgramId"

\* The outcome of the last call is the same whatever the signer flag, the
\* writable flag and the balance of its first account.
C13_SameOutcome ==
    (Called /\ HasFirst) =>
        \A signer \in BOOLEAN, writable \in BOOLEAN, balance \in {0, 5, 1000} :
            LET accts == [call.accounts EXCEPT ![1] = [key |-> FirstKey, is_signer |-> signer,
                                                       is_writable |-> writable]]
                mem == [owner |-> owner,
                        lamports |-> [lamports EXCEPT ![FirstKey] = balance],
                        data |-> call.entry]
                r == process_instruction(call.program_id, accts, call.instruction_data,
                                         mem, overflow_checks)
            IN  r.result = call.result /\ r.data = data /\ r.events = call.events

\* C13: the ownership check is the only authorization.  The outcome does
\* not depend on the first account's signer flag, writable flag or balance,
\* and a call on an owned first account holding a 4-byte buffer returns Ok
\* and stores the incremented counter whatever those attributes are.
C13_SoleAuthorization ==
    /\ C13_SameOutcome
    /\ (Called /\ OwnedFirst /\ Len(call.entry[FirstKey]) = 4)
           => /\ call.result = "Ok"
              /\ IsSucc(U32FromLeBytes(call.entry[FirstKey]), U32FromLeBytes(data[FirstKey]))

\* C14: a call on an owned first account returns Ok only if the buffer has
\* exactly 4 bytes; a longer buffer is rejected by the decode and left
\* unchanged.
C14_ExactLength ==
    (Called /\ OwnedFirst) =>
        /\ call.result = "Ok" => Len(call.entry[FirstKey]) = 4
        /\ Len(call.entry[FirstKey]) > 4
               => /\ call.result = "BorshIoError"
                  /\ data = call.entry
                  /\ Serialized = {}

C14_Witness ==
    /\ OwnedFirst /\ call.entry[FirstKey] = <<1, 0, 0, 0, 9>>
    /\ call.result = "BorshIoError" /\ data = call.entry

\* C15: the encode step never fails.  A call whose decode succeeded either
\* stops at the increment or encodes and returns Ok; an error value is
\* never returned once the encode step has run.
C15_EncodeNeverFails ==
    Called =>
        /\ Serialized # {} => call.result = "Ok"
        /\ (OwnedFirst /\ try_from_slice(call.entry[FirstKey]).ok)
               => \/ call.result = "Ok" /\ Serialized # {}
                  \/ call.result = "Panic" /\ Serialized = {}

C15_Witness ==
    /\ OwnedFirst /\ try_from_slice(call.entry[FirstKey]).ok
    /\ Serialized # {} /\ call.result = "Ok"
    /\ call.entry[FirstKey] = <<255, 255, 0, 0>>

\* Positions of the "Greeted <n> time(s)!" lines among the events of the
\* last call.
GreetedLines == { i \in 1..Len(call.events) : call.events[i].text = "Greeted {} time(s)!" }

\* C16: a call that returns Ok emits exactly one "Greeted <n> time(s)!"
\* line, as its last event and right after the encode step, with n the
\* counter the call stored; any other call emits no such line.
C16_OneGreetingLine ==
    Called =>
        /\ call.result = "Ok" =>
               /\ GreetedLines = { Len(call.events) }
               /\ Serialized = { Len(call.events) - 1 }
               /\ call.events[Len(call.events)].args = << U32FromLeBytes(data[FirstKey]) >>
        /\ call.result # "Ok" => GreetedLines = {}

C16_Witness ==
    /\ call.result = "Ok" /\ Len(call.events) = 3
    /\ data[FirstKey] = <<1, 0, 0, 0>>
    /\ call.events[3] = Msg("Greeted {} time(s)!", << [hi |-> 0, lo |-> 1] >>)

====
